---- MODULE Spec2Model ----
(***************************************************************************)
(* Model of cachedoutput.py: the filesystem-backed OutputCache and the     *)
(* CachedOutputPreprocessor that serves notebook cell outputs from it.     *)
(*                                                                         *)
(* Cell indexes are Python's (0-based): cell k of a notebook is            *)
(* cells[k + 1] here.  Texts are strings, joined with "\n" as the code     *)
(* joins them.                                                             *)
(***************************************************************************)
EXTENDS Integers, Sequences, FiniteSets, TLC

\* ------------------------------------------------------------------ bounds
MaxCells == 3
MaxSetup == 2
MaxPasses == 2

\* Source texts of code cells.  "a" stands for a cell that defines a name
\* ("x = 1"), "b" for one that uses it ("print(x)").
Sources == {"a", "b"}

\* ------------------------------------------------------------------- texts
RECURSIVE JoinLines(_)
\* '\n'.join(list)
JoinLines(list) ==
    IF list = <<>> THEN ""
    ELSE IF Len(list) = 1 THEN list[1]
    ELSE list[1] \o "\n" \o JoinLines(Tail(list))

\* sha1(text).hexdigest(): a hex digest, kept as its first two characters and
\* the rest.  The digest is injective on texts (collisions are neglected), so
\* the rest carries the text; the two leading characters are a function of it.
Sha1(text) == << IF Len(text) % 4 = 1 THEN "86" ELSE "e9", text >>

\* --------------------------------------------------------- output records
\* An output record of a cell is a NotebookNode (node = TRUE); json.load gives
\* a plain dict (node = FALSE).  A file holds a sequence of JSON tokens.
LBracket == [tok |-> "[", output_type |-> "", text |-> ""]
RBracket == [tok |-> "]", output_type |-> "", text |-> ""]

\* nbformat.NotebookNode(output)
NotebookNode(output) == [output EXCEPT !.node = TRUE]

\* json.dump(value, f): the text written for a list of output records
JsonDump(value) ==
    <<LBracket>>
    \o [i \in 1..Len(value) |->
          [tok |-> "obj", output_type |-> value[i].output_type, text |-> value[i].text]]
    \o <<RBracket>>

\* whether json.load(f) parses the content (otherwise it raises ValueError)
JsonValid(content) ==
    /\ Len(content) >= 2
    /\ content[1] = LBracket
    /\ content[Len(content)] = RBracket
    /\ \A i \in 2..(Len(content) - 1) : content[i].tok = "obj"

\* json.load(f) of a content that parses
JsonLoad(content) ==
    [i \in 1..(Len(content) - 2) |->
        [node |-> FALSE, output_type |-> content[i + 1].output_type,
         text |-> content[i + 1].text]]

\* -------------------------------------------------------------- OutputCache
\* OutputCache._path(key): root/key[:2]/key[2:].json
Path(key) == [dir |-> key[1], name |-> key[2]]

\* A membership test that never finds the key, so that every cell is run and
\* its outputs are put
ContainsNever(fileMap, key) == FALSE

\* OutputCache.__contains__(key) on the files of the cache directory
Contains(fileMap, key) == Path(key) \in DOMAIN fileMap

\* os.remove(path)
Remove(fileMap, path) == [p \in (DOMAIN fileMap) \ {path} |-> fileMap[p]]

\* __getitem__ with the os.remove of the except clause left out
GetItemKeepsCorrupt(fileMap, key) ==
    IF ~Contains(fileMap, key)
    THEN [raised |-> "KeyError", value |-> <<>>, files |-> fileMap]
    ELSE IF JsonValid(fileMap[Path(key)])
    THEN [raised |-> "", value |-> JsonLoad(fileMap[Path(key)]), files |-> fileMap]
    ELSE [raised |-> "ValueError", value |-> <<>>, files |-> fileMap]

\* OutputCache.__getitem__(key): what it raises, what it returns and the files
\* it leaves
GetItem(fileMap, key) ==
    IF ~Contains(fileMap, key)
    THEN [raised |-> "KeyError", value |-> <<>>, files |-> fileMap]
    ELSE IF JsonValid(fileMap[Path(key)])
    THEN [raised |-> "", value |-> JsonLoad(fileMap[Path(key)]), files |-> fileMap]
    ELSE [raised |-> "ValueError", value |-> <<>>,
          files |-> Remove(fileMap, Path(key))]

\* The except clause of __setitem__ without the errno test: every OSError is
\* raised again
OnMakedirsErrorRaises(errno) == "raise"

\* The except clause of __setitem__: what an OSError of os.makedirs leads to
OnMakedirsError(errno) == IF errno = "EEXIST" THEN "pass" ELSE "raise"

\* OutputCache.__setitem__(key, value) run without interruption: the shard
\* directories and the files it leaves
SetItem(dirSet, fileMap, key, value) ==
    [dirs |-> dirSet \cup {"root", Path(key).dir},
     files |-> [p \in (DOMAIN fileMap) \cup {Path(key)} |->
                   IF p = Path(key) THEN JsonDump(value) ELSE fileMap[p]]]

\* ------------------------------------------------ CachedOutputPreprocessor
\* cache_key(source, cell_index) with the preprocessor's setup and
\* end_setup_index
CacheKey(source, cell_index, setupList, endIndex) ==
    IF cell_index > endIndex /\ setupList # <<>>
    THEN Sha1(JoinLines(setupList \o <<source>>))
    ELSE Sha1(source)

RECURSIVE ScanSetupWithoutBreak(_, _, _, _)
\* The loop of preprocess without its break: it stops appending once the setup
\* is full but runs to the last cell
ScanSetupWithoutBreak(cellSeq, n, i, acc) ==
    IF i >= Len(cellSeq)
    THEN [setup |-> acc, idx |-> i - 1, unbound |-> (i = 0)]
    ELSE ScanSetupWithoutBreak(cellSeq, n, i + 1,
                               IF Len(acc) < n /\ cellSeq[i + 1].cell_type = "code"
                               THEN Append(acc, cellSeq[i + 1].source) ELSE acc)

RECURSIVE ScanSetup(_, _, _, _)
\* The loop of preprocess that extracts the setup cells: i is the index the
\* loop is at, acc the sources appended so far.  idx is the last index the
\* loop variable took; for a notebook without cells the loop binds no idx
\* (unbound) and the assignment after the loop raises.
ScanSetup(cellSeq, n, i, acc) ==
    IF i >= Len(cellSeq)
    THEN [setup |-> acc, idx |-> i - 1, unbound |-> (i = 0)]
    ELSE IF Len(acc) >= n
    THEN [setup |-> acc, idx |-> i, unbound |-> FALSE]
    ELSE ScanSetup(cellSeq, n, i + 1,
                   IF cellSeq[i + 1].cell_type = "code"
                   THEN Append(acc, cellSeq[i + 1].source) ELSE acc)

\* list.index(x): the 1-based position of the first element equal to x, 0 when
\* there is none (Python raises ValueError)
IndexOf(list, x) ==
    IF \E i \in 1..Len(list) : list[i] = x
    THEN CHOOSE i \in 1..Len(list) :
            list[i] = x /\ \A j \in 1..(i - 1) : list[j] # x
    ELSE 0

\* The execution engine (ExecutePreprocessor.run_cell on a kernel): the output
\* records of running source in a context that has run history.  It is
\* deterministic; the text shows everything the context has run; "b" run in a
\* context that ran nothing gives an error record.
EngineRun(history, source) ==
    << [node |-> TRUE,
        output_type |-> IF source = "b" /\ history = <<>> THEN "error" ELSE "stream",
        text |-> JoinLines(history \o <<source>>)] >>

\* The setup cell of run_cell with the boundary test off by one (> for >=)
SetupSourcePastBoundary(source, cell_index, setupList, endIndex) ==
    IF cell_index > endIndex
    THEN JoinLines(setupList)
    ELSE JoinLines(SubSeq(setupList, 1, IndexOf(setupList, source) - 1))

\* The source of the setup cell that run_cell runs before the cell
SetupSource(source, cell_index, setupList, endIndex) ==
    IF cell_index >= endIndex
    THEN JoinLines(setupList)
    ELSE JoinLines(SubSeq(setupList, 1, IndexOf(setupList, source) - 1))

\* How an engine run can fail: not at all, while the setup cell runs, while
\* the cell runs
EngineFailures == {"none", "setup", "cell"}

\* run_cell without the try/finally: an exception leaves before the kernel is
\* stopped
RunCellWithoutFinally(source, cell_index, setupList, endIndex, failure) ==
    IF cell_index < endIndex /\ IndexOf(setupList, source) = 0
    THEN [raised |-> "ValueError", ran |-> <<>>, outputs |-> <<>>,
          events |-> <<"start">>]
    ELSE
    LET pre == SetupSource(source, cell_index, setupList, endIndex)
        history == IF pre # "" THEN <<pre>> ELSE <<>>
    IN  IF failure = "setup"
        THEN [raised |-> "EngineFailure", ran |-> history, outputs |-> <<>>,
              events |-> <<"start", "run_setup">>]
        ELSE IF failure = "cell"
        THEN [raised |-> "EngineFailure", ran |-> history \o <<source>>,
              outputs |-> <<>>,
              events |-> <<"start">> \o (IF pre # "" THEN <<"run_setup">> ELSE <<>>)
                         \o <<"run_cell">>]
        ELSE [raised |-> "", ran |-> history \o <<source>>,
              outputs |-> EngineRun(history, source),
              events |-> <<"start">> \o (IF pre # "" THEN <<"run_setup">> ELSE <<>>)
                         \o <<"run_cell", "stop">>]

\* run_cell(cell, cell_index): the sources run in the kernel, in order, the
\* exception that leaves run_cell, the outputs returned, and the kernel events
RunCell(source, cell_index, setupList, endIndex, failure) ==
    IF cell_index < endIndex /\ IndexOf(setupList, source) = 0
    THEN [raised |-> "ValueError", ran |-> <<>>, outputs |-> <<>>,
          events |-> <<"start", "stop">>]
    ELSE
    LET pre == SetupSource(source, cell_index, setupList, endIndex)
        history == IF pre # "" THEN <<pre>> ELSE <<>>
    IN  IF failure = "setup"
        THEN [raised |-> "EngineFailure", ran |-> history, outputs |-> <<>>,
              events |-> <<"start", "run_setup", "stop">>]
        ELSE IF failure = "cell"
        THEN [raised |-> "EngineFailure", ran |-> history \o <<source>>,
              outputs |-> <<>>,
              events |-> <<"start">> \o (IF pre # "" THEN <<"run_setup">> ELSE <<>>)
                         \o <<"run_cell", "stop">>]
        ELSE [raised |-> "", ran |-> history \o <<source>>,
              outputs |-> EngineRun(history, source),
              events |-> <<"start">> \o (IF pre # "" THEN <<"run_setup">> ELSE <<>>)
                         \o <<"run_cell", "stop">>]

\* The store of preprocess_cell moved to where an exception of run_cell does
\* not skip it
StoreOnMissAlways(run, dirSet, fileMap, key) ==
    SetItem(dirSet, fileMap, key, run.outputs)

\* The store of preprocess_cell skipping outputs that hold an error record
StoreOnMissSkipsErrors(run, dirSet, fileMap, key) ==
    IF run.raised # ""
       \/ \E i \in 1..Len(run.outputs) : run.outputs[i].output_type = "error"
    THEN [dirs |-> dirSet, files |-> fileMap]
    ELSE SetItem(dirSet, fileMap, key, run.outputs)

\* Lines 117-118 of preprocess_cell on a cache miss: the outputs of run_cell
\* are stored under the key; an exception of run_cell leaves before the store.
StoreOnMiss(run, dirSet, fileMap, key) ==
    IF run.raised # ""
    THEN [dirs |-> dirSet, files |-> fileMap]
    ELSE SetItem(dirSet, fileMap, key, run.outputs)

\* preprocess_cell(cell, resources, cell_index): the exception that leaves it,
\* the cell's outputs, the cache directory it leaves, and what it did (entry;
\* failure is what the engine did when it ran)
PreprocessCellResult(cell, cell_index, setupList, endIndex, dirSet, fileMap, failure) ==
    LET key == CacheKey(cell.source, cell_index, setupList, endIndex)
        blank == [index |-> cell_index, key |-> key, hit |-> FALSE, ran |-> <<>>,
                  events |-> <<>>, failure |-> "none", raised |-> "",
                  outputs |-> <<>>, stored |-> FALSE]
    IN
    IF Contains(fileMap, key)
    THEN LET got == GetItem(fileMap, key)
             outs == [i \in 1..Len(got.value) |-> NotebookNode(got.value[i])]
         IN  IF got.raised # ""
             THEN [raised |-> got.raised, outputs |-> cell.outputs,
                   dirs |-> dirSet, files |-> got.files,
                   entry |-> [blank EXCEPT !.hit = TRUE, !.raised = got.raised]]
             ELSE [raised |-> "", outputs |-> outs,
                   dirs |-> dirSet, files |-> got.files,
                   entry |-> [blank EXCEPT !.hit = TRUE, !.outputs = outs]]
    ELSE LET run == RunCell(cell.source, cell_index, setupList, endIndex, failure)
             put == StoreOnMiss(run, dirSet, fileMap, key)
         IN  [raised |-> run.raised,
              outputs |-> IF run.raised # "" THEN cell.outputs ELSE run.outputs,
              dirs |-> put.dirs, files |-> put.files,
              entry |-> [blank EXCEPT !.ran = run.ran, !.events = run.events,
                                      !.failure = failure, !.raised = run.raised,
                                      !.outputs = run.outputs,
                                      !.stored = (put.files # fileMap)]]

\* ------------------------------------------------------------------- state
VARIABLES
    dirs,             \* directories of the cache directory that exist
    files,            \* path -> content of the files of the cache directory
    setup_cells,      \* CachedOutputPreprocessor.setup_cells
    cells,            \* nb.cells of the notebook being processed
    setup,            \* self.setup
    end_setup_index,  \* self.end_setup_index
    pc,               \* where main is: "read", "cells", "done", "aborted"
    idx,              \* index of the next cell preprocess_cell is called on
    error,            \* the exception that ended the pass, "" when none
    written,          \* nbformat.write(nb, sys.stdout) was reached in this pass
    pass,             \* number of the pass (1 is the first)
    log,              \* what preprocess_cell did for each code cell of this pass
    prevCells,        \* nb.cells at the end of the previous pass
    prevLog,          \* log of the previous pass
    prevPc,           \* how the previous pass ended: "done", "aborted", "" (none)
    edit,             \* how this pass's notebook differs from the previous one's
    procs,            \* concurrent OutputCache users (specification SpecRace)
    lastOp            \* last OutputCache operation called (specification SpecStore)

passVars == <<setup_cells, cells, setup, end_setup_index, pc, idx, error, written,
              pass, log, prevCells, prevLog, prevPc, edit>>
vars == <<dirs, files, passVars, procs, lastOp>>

\* ------------------------------------------------------------ initial state
CodeCells == {[cell_type |-> "code", source |-> s, outputs |-> <<>>] : s \in Sources}
\* The source of a non-code cell is never read.
MarkdownCell == [cell_type |-> "markdown", source |-> "#", outputs |-> <<>>]
Cells == CodeCells \cup {MarkdownCell}
Notebooks == UNION {[1..n -> Cells] : n \in 0..MaxCells}

EmptyFiles == [p \in {} |-> <<>>]
\* A file whose content does not parse: a truncated write.
CorruptContent == <<LBracket>>
\* The cache directory before the first pass: empty, or holding one corrupt
\* entry.
InitialCaches ==
    {[dirs |-> {}, files |-> EmptyFiles]}
    \cup {[dirs |-> {"root", Path(Sha1(s)).dir},
           files |-> [p \in {Path(Sha1(s))} |-> CorruptContent]] : s \in Sources}

NoEdit == [kind |-> "none", index |-> 0]
NoProcs == <<>>
NoOp == [op |-> "none", key |-> Sha1(""), raised |-> "", value |-> <<>>,
         before |-> EmptyFiles]

Init ==
    /\ \E c \in InitialCaches : dirs = c.dirs /\ files = c.files
    /\ setup_cells \in 0..MaxSetup
    /\ cells \in Notebooks
    /\ setup = <<>>
    /\ end_setup_index = 0
    /\ pc = "read"
    /\ idx = 0
    /\ error = ""
    /\ written = FALSE
    /\ pass = 1
    /\ log = <<>>
    /\ prevCells = <<>>
    /\ prevLog = <<>>
    /\ prevPc = ""
    /\ edit = NoEdit
    /\ procs = NoProcs
    /\ lastOp = NoOp

\* ----------------------------------------------------------------- actions
\* preprocess(nb, resources) up to the call of the base class: extract the
\* setup cells.
Preprocess ==
    /\ pc = "read"
    /\ LET scan == ScanSetup(cells, setup_cells, 0, <<>>)
       IN  /\ setup' = scan.setup
           /\ IF scan.unbound
              THEN /\ pc' = "aborted"
                   /\ error' = "UnboundLocalError"
                   /\ UNCHANGED end_setup_index
              ELSE /\ pc' = "cells"
                   /\ error' = ""
                   /\ end_setup_index' = scan.idx
    /\ idx' = 0
    /\ UNCHANGED <<dirs, files, setup_cells, cells, written, pass, log, prevCells,
                   prevLog, prevPc, edit, procs, lastOp>>

\* Whether the engine failure can happen for this cell: the engine runs only on
\* a cache miss, and the setup cell only when its source is not empty.
FailureApplies(cell, cell_index, failure) ==
    \/ failure = "none"
    \/ /\ ~Contains(files, CacheKey(cell.source, cell_index, setup, end_setup_index))
       /\ ~(cell_index < end_setup_index /\ IndexOf(setup, cell.source) = 0)
       /\ failure = "setup" =>
              SetupSource(cell.source, cell_index, setup, end_setup_index) # ""

\* preprocess_cell without its test of cell.cell_type: every cell is looked
\* up and, on a miss, run and stored
PreprocessCellAnyType ==
    /\ pc = "cells"
    /\ idx < Len(cells)
    /\ LET cell == cells[idx + 1]
       IN  \E failure \in EngineFailures :
                /\ FailureApplies(cell, idx, failure)
                /\ LET r == PreprocessCellResult(cell, idx, setup, end_setup_index,
                                                 dirs, files, failure)
                   IN  /\ dirs' = r.dirs
                       /\ files' = r.files
                       /\ cells' = [cells EXCEPT ![idx + 1].outputs = r.outputs]
                       /\ log' = Append(log, r.entry)
                       /\ IF r.raised # ""
                          THEN pc' = "aborted" /\ error' = r.raised /\ idx' = idx
                          ELSE pc' = "cells" /\ error' = "" /\ idx' = idx + 1
    /\ UNCHANGED <<setup_cells, setup, end_setup_index, written, pass, prevCells,
                   prevLog, prevPc, edit, procs, lastOp>>

\* One iteration of Preprocessor.preprocess: preprocess_cell on the next cell.
\* An exception ends the pass.
PreprocessCell ==
    /\ pc = "cells"
    /\ idx < Len(cells)
    /\ LET cell == cells[idx + 1]
       IN  IF cell.cell_type # "code"
           THEN /\ idx' = idx + 1
                /\ UNCHANGED <<dirs, files, cells, pc, error, log>>
           ELSE \E failure \in EngineFailures :
                /\ FailureApplies(cell, idx, failure)
                /\ LET r == PreprocessCellResult(cell, idx, setup, end_setup_index,
                                                 dirs, files, failure)
                   IN  /\ dirs' = r.dirs
                       /\ files' = r.files
                       /\ cells' = [cells EXCEPT ![idx + 1].outputs = r.outputs]
                       /\ log' = Append(log, r.entry)
                       /\ IF r.raised # ""
                          THEN pc' = "aborted" /\ error' = r.raised /\ idx' = idx
                          ELSE pc' = "cells" /\ error' = "" /\ idx' = idx + 1
    /\ UNCHANGED <<setup_cells, setup, end_setup_index, written, pass, prevCells,
                   prevLog, prevPc, edit, procs, lastOp>>

\* main after the preprocessor returned: nbformat.write(nb, sys.stdout)
WriteNotebook ==
    /\ pc = "cells"
    /\ idx = Len(cells)
    /\ pc' = "done"
    /\ written' = TRUE
    /\ UNCHANGED <<dirs, files, setup_cells, cells, setup, end_setup_index, idx, error,
                   pass, log, prevCells, prevLog, prevPc, edit, procs, lastOp>>

\* nbformat.read(path): the cells as the file holds them, without outputs
ReadCells(cellSeq) == [i \in 1..Len(cellSeq) |-> [cellSeq[i] EXCEPT !.outputs = <<>>]]

\* cellSeq with cell c inserted before index i (0-based)
InsertAt(cellSeq, i, c) ==
    SubSeq(cellSeq, 1, i) \o <<c>> \o SubSeq(cellSeq, i + 1, Len(cellSeq))

\* The next pass starts (the next path of main's loop, or the next run of the
\* program) on notebook nb, which differs from the last one as e says.
StartPass(nb, e) ==
    /\ pc \in {"done", "aborted"}
    /\ pass < MaxPasses
    /\ cells' = nb
    /\ edit' = e
    /\ pc' = "read"
    /\ idx' = 0
    /\ error' = ""
    /\ written' = FALSE
    /\ pass' = pass + 1
    /\ log' = <<>>
    /\ prevCells' = cells
    /\ prevLog' = log
    /\ prevPc' = pc
    /\ UNCHANGED <<dirs, files, setup_cells, setup, end_setup_index, procs, lastOp>>

\* The same notebook is processed again.
ReadSame == StartPass(ReadCells(cells), [kind |-> "same", index |-> 0])

\* The notebook is processed again with the source of one code cell changed.
ReadEdited ==
    /\ \E i \in 0..(Len(cells) - 1), s \in Sources :
        /\ cells[i + 1].cell_type = "code"
        /\ cells[i + 1].source # s
        /\ StartPass(ReadCells([cells EXCEPT ![i + 1].source = s]),
                     [kind |-> "source", index |-> i])

\* The notebook is processed again with one cell inserted.
ReadInserted ==
    /\ Len(cells) < MaxCells
    /\ \E i \in 0..Len(cells), c \in Cells :
        StartPass(ReadCells(InsertAt(cells, i, c)), [kind |-> "insert", index |-> i])

Next ==
    \/ Preprocess
    \/ PreprocessCell
    \/ WriteNotebook
    \/ ReadSame
    \/ ReadEdited
    \/ ReadInserted

Spec == Init /\ [][Next]_vars

\* ------------------------------------------- OutputCache called on its own
\* Keys and values the store operations are called with.
StoreKeys == {Sha1("a"), Sha1("b"), Sha1("a\nb")}
StoreValues ==
    {<<>>, EngineRun(<<>>, "b"), EngineRun(<<>>, "a") \o EngineRun(<<"a">>, "b")}
\* What a file of the cache directory can hold before the calls.
StoreContents == {CorruptContent} \cup {JsonDump(v) : v \in StoreValues}

\* A cache directory holding any files under the keys: some parse, some do not.
InitStore ==
    /\ \E P \in SUBSET {Path(k) : k \in StoreKeys} :
          /\ files \in [P -> StoreContents]
          /\ dirs = {"root"} \cup {p.dir : p \in P}
    /\ setup_cells = 0
    /\ cells = <<>>
    /\ setup = <<>>
    /\ end_setup_index = 0
    /\ pc = "idle"
    /\ idx = 0
    /\ error = ""
    /\ written = FALSE
    /\ pass = 0
    /\ log = <<>>
    /\ prevCells = <<>>
    /\ prevLog = <<>>
    /\ prevPc = ""
    /\ edit = NoEdit
    /\ procs = NoProcs
    /\ lastOp = NoOp

\* key in cache
StoreContains(key) ==
    /\ lastOp' = [op |-> "contains", key |-> key, raised |-> "",
                  value |-> <<Contains(files, key)>>, before |-> files]
    /\ UNCHANGED <<dirs, files, passVars, procs>>

\* cache[key]
StoreGet(key) ==
    LET got == GetItem(files, key)
    IN  /\ files' = got.files
        /\ lastOp' = [op |-> "get", key |-> key, raised |-> got.raised,
                      value |-> got.value, before |-> files]
        /\ UNCHANGED <<dirs, passVars, procs>>

\* cache[key] = value
StorePut(key, value) ==
    LET put == SetItem(dirs, files, key, value)
    IN  /\ dirs' = put.dirs
        /\ files' = put.files
        /\ lastOp' = [op |-> "put", key |-> key, raised |-> "", value |-> value,
                      before |-> files]
        /\ UNCHANGED <<passVars, procs>>

StoreNext ==
    \E key \in StoreKeys :
        \/ StoreContains(key)
        \/ StoreGet(key)
        \/ \E value \in StoreValues : StorePut(key, value)

SpecStore == InitStore /\ [][StoreNext]_vars

\* ------------------------------- two passes putting into one cache directory
\* Each writer is a pass inside OutputCache.__setitem__(key, value).  Its
\* steps are the system calls of os.makedirs and of the buffered file write:
\* stat and mkdir of the cache root, mkdir of the shard directory, open with
\* truncation, the writes of the text (each at the writer's own file offset),
\* the last of them at close.
Writers == {"w1", "w2"}
\* A byte of a file that no write has filled (a hole behind a truncation)
NulByte == [tok |-> "nul", output_type |-> "", text |-> ""]

\* The content of a file after chunk is written at offset
WriteAt(content, offset, chunk) ==
    LET n == IF Len(content) > offset + Len(chunk)
             THEN Len(content) ELSE offset + Len(chunk)
    IN  [i \in 1..n |->
            IF i > offset /\ i <= offset + Len(chunk) THEN chunk[i - offset]
            ELSE IF i <= Len(content) THEN content[i]
            ELSE NulByte]

InitRace ==
    /\ dirs \in {{}, {"root"}, {"root", "86"}}
    /\ files = EmptyFiles
    /\ procs \in [Writers -> [pc : {"stat_root"}, key : StoreKeys, value : StoreValues,
                              offset : {0}, made : {""}]]
    /\ setup_cells = 0
    /\ cells = <<>>
    /\ setup = <<>>
    /\ end_setup_index = 0
    /\ pc = "idle"
    /\ idx = 0
    /\ error = ""
    /\ written = FALSE
    /\ pass = 0
    /\ log = <<>>
    /\ prevCells = <<>>
    /\ prevLog = <<>>
    /\ prevPc = ""
    /\ edit = NoEdit
    /\ lastOp = NoOp

\* os.makedirs: does the cache root exist?
StatRoot(w) ==
    /\ procs[w].pc = "stat_root"
    /\ procs' = [procs EXCEPT ![w].pc =
                    IF "root" \in dirs THEN "mkdir_shard" ELSE "mkdir_root"]
    /\ UNCHANGED <<dirs, files, passVars, lastOp>>

\* os.makedirs: mkdir of the cache root; os.makedirs itself passes over the
\* root having been made by someone else since the stat.
MkdirRoot(w) ==
    /\ procs[w].pc = "mkdir_root"
    /\ dirs' = dirs \cup {"root"}
    /\ procs' = [procs EXCEPT ![w].pc = "mkdir_shard"]
    /\ UNCHANGED <<files, passVars, lastOp>>

\* os.makedirs: mkdir of the shard directory, which fails with EEXIST when the
\* directory is there; the except clause of __setitem__ decides what follows.
MkdirShard(w) ==
    /\ procs[w].pc = "mkdir_shard"
    /\ LET d == Path(procs[w].key).dir
       IN  IF d \in dirs
           THEN /\ procs' = [procs EXCEPT
                      ![w].pc = IF OnMakedirsError("EEXIST") = "pass"
                                THEN "open" ELSE "failed",
                      ![w].made = "eexist"]
                /\ UNCHANGED dirs
           ELSE /\ dirs' = dirs \cup {d}
                /\ procs' = [procs EXCEPT ![w].pc = "open", ![w].made = "created"]
    /\ UNCHANGED <<files, passVars, lastOp>>

\* io.open(path, 'w'): the file is created, or truncated when it is there.
OpenFile(w) ==
    /\ procs[w].pc = "open"
    /\ files' = [p \in (DOMAIN files) \cup {Path(procs[w].key)} |->
                    IF p = Path(procs[w].key) THEN <<>> ELSE files[p]]
    /\ procs' = [procs EXCEPT ![w].pc = "write", ![w].offset = 0]
    /\ UNCHANGED <<dirs, passVars, lastOp>>

\* One write of the file object: the next n tokens of the JSON text go to the
\* file at the writer's offset.  The write that ends the text is the flush of
\* close.  When the path was removed since the open, the writes go to the
\* unlinked file and the directory does not change.
WriteChunk(w) ==
    /\ procs[w].pc = "write"
    /\ LET text == JsonDump(procs[w].value)
           off == procs[w].offset
           path == Path(procs[w].key)
       IN  \E n \in 1..(Len(text) - off) :
              /\ files' = IF path \in DOMAIN files
                           THEN [files EXCEPT
                                   ![path] = WriteAt(files[path], off,
                                                     SubSeq(text, off + 1, off + n))]
                           ELSE files
              /\ procs' = [procs EXCEPT
                              ![w].offset = off + n,
                              ![w].pc = IF off + n = Len(text) THEN "done" ELSE "write"]
    /\ UNCHANGED <<dirs, passVars, lastOp>>

RaceNext ==
    \E w \in Writers :
        \/ StatRoot(w)
        \/ MkdirRoot(w)
        \/ MkdirShard(w)
        \/ OpenFile(w)
        \/ WriteChunk(w)

SpecRace == InitRace /\ [][RaceNext]_vars

\* ------------------------- a lookup of preprocess_cell during a __setitem__
\* Writer "w1" is inside __setitem__ (the steps above) while a reader, another
\* process at the lookup of preprocess_cell, tests and reads the cache.
Readers == {"r1"}

InitLookup ==
    /\ dirs \in {{}, {"root"}, {"root", "86"}}
    /\ files = EmptyFiles
    /\ procs \in {[p \in {"w1"} \cup Readers |-> IF p = "w1" THEN w ELSE r] :
                    w \in [pc : {"stat_root"}, key : StoreKeys, value : StoreValues,
                           offset : {0}, made : {""}],
                    r \in [pc : {"contains"}, key : StoreKeys, value : {<<>>},
                           raised : {""}]}
    /\ setup_cells = 0
    /\ cells = <<>>
    /\ setup = <<>>
    /\ end_setup_index = 0
    /\ pc = "idle"
    /\ idx = 0
    /\ error = ""
    /\ written = FALSE
    /\ pass = 0
    /\ log = <<>>
    /\ prevCells = <<>>
    /\ prevLog = <<>>
    /\ prevPc = ""
    /\ edit = NoEdit
    /\ lastOp = NoOp

\* preprocess_cell: key in self.cache.  A miss sends the reader to run_cell.
LookupContains(r) ==
    /\ procs[r].pc = "contains"
    /\ procs' = [procs EXCEPT ![r].pc =
                    IF Contains(files, procs[r].key) THEN "getitem" ELSE "miss"]
    /\ UNCHANGED <<dirs, files, passVars, lastOp>>

\* __getitem__: the membership test and the open of the file for reading
LookupGetItem(r) ==
    /\ procs[r].pc = "getitem"
    /\ procs' = IF Contains(files, procs[r].key)
                THEN [procs EXCEPT ![r].pc = "load"]
                ELSE [procs EXCEPT ![r].pc = "raised", ![r].raised = "KeyError"]
    /\ UNCHANGED <<dirs, files, passVars, lastOp>>

\* __getitem__: json.load(f) reads what the file holds now
LookupLoad(r) ==
    /\ procs[r].pc = "load"
    /\ LET path == Path(procs[r].key)
           content == IF path \in DOMAIN files THEN files[path] ELSE <<>>
       IN  procs' = IF JsonValid(content)
                    THEN [procs EXCEPT ![r].pc = "hit", ![r].value = JsonLoad(content)]
                    ELSE [procs EXCEPT ![r].pc = "remove"]
    /\ UNCHANGED <<dirs, files, passVars, lastOp>>

\* __getitem__: except ValueError: os.remove(path); raise.  preprocess_cell
\* does not catch the exception.
LookupRemove(r) ==
    /\ procs[r].pc = "remove"
    /\ files' = Remove(files, Path(procs[r].key))
    /\ procs' = [procs EXCEPT ![r].pc = "raised", ![r].raised = "ValueError"]
    /\ UNCHANGED <<dirs, passVars, lastOp>>

LookupNext ==
    \/ StatRoot("w1")
    \/ MkdirRoot("w1")
    \/ MkdirShard("w1")
    \/ OpenFile("w1")
    \/ WriteChunk("w1")
    \/ \E r \in Readers :
          \/ LookupContains(r)
          \/ LookupGetItem(r)
          \/ LookupLoad(r)
          \/ LookupRemove(r)

SpecLookup == InitLookup /\ [][LookupNext]_vars

\* ------------------------------------------------- vocabulary of the claims
\* The code cells of a notebook that come before cell k
CodeBefore(cellSeq, k) ==
    {j \in 0..(k - 1) : j < Len(cellSeq) /\ cellSeq[j + 1].cell_type = "code"}

\* Cell k is one of the first n code cells of the notebook (a setup cell)
IsSetupCell(cellSeq, n, k) ==
    /\ k < Len(cellSeq)
    /\ cellSeq[k + 1].cell_type = "code"
    /\ Cardinality(CodeBefore(cellSeq, k)) < n

\* Cell k is a code cell that is not a setup cell
IsOtherCode(cellSeq, n, k) ==
    /\ k < Len(cellSeq)
    /\ cellSeq[k + 1].cell_type = "code"
    /\ ~IsSetupCell(cellSeq, n, k)

\* The Setup Set: the sources of the setup cells, in document order
SetupSet(cellSeq, n) ==
    LET S == {k \in 0..(Len(cellSeq) - 1) : IsSetupCell(cellSeq, n, k)}
    IN  [r \in 1..Cardinality(S) |->
            cellSeq[(CHOOSE k \in S : Cardinality(CodeBefore(cellSeq, k)) = r - 1) + 1].source]

Entries(l) == {l[i] : i \in 1..Len(l)}
\* The engine was started for the entry's cell
Executed(e) == e.events # <<>>
HasError(outputs) == \E i \in 1..Len(outputs) : outputs[i].output_type = "error"

\* ------------------------------------------------------------------ claims
\* C1: when the Setup Set is not empty, every code cell that is not a setup
\* cell gets the cache key of the Setup Set sources joined with newline,
\* followed by its own source.
C1_KeyIncludesSetup ==
    \A e \in Entries(log) :
        (SetupSet(cells, setup_cells) # <<>> /\ IsOtherCode(cells, setup_cells, e.index))
        => e.key = Sha1(JoinLines(SetupSet(cells, setup_cells)
                                  \o <<cells[e.index + 1].source>>))

\* C2: when this pass's notebook differs from the previous one's only in the
\* source of one setup cell, every code cell after it that is not a setup cell
\* has another cache key than it had in the previous pass.
C2_SetupChangeChangesKeys ==
    (edit.kind = "source" /\ IsSetupCell(cells, setup_cells, edit.index))
    => \A e \in Entries(log), f \in Entries(prevLog) :
          (e.index = f.index /\ e.index > edit.index
              /\ IsOtherCode(cells, setup_cells, e.index))
          => e.key # f.key

\* C3: when two notebooks processed one after the other have the same setup
\* cell sources, a cell that is not a setup cell gets the same cache key in
\* both when its source is the same, wherever it sits.
C3_KeyDeterminedBySetupAndSource ==
    (pass > 1 /\ SetupSet(cells, setup_cells) = SetupSet(prevCells, setup_cells))
    => \A e \in Entries(log), f \in Entries(prevLog) :
          (/\ IsOtherCode(cells, setup_cells, e.index)
           /\ IsOtherCode(prevCells, setup_cells, f.index)
           /\ cells[e.index + 1].source = prevCells[f.index + 1].source)
          => e.key = f.key

\* C4: when the engine does not raise, a second pass over the same notebook
\* starts no engine context (every code cell is a cache hit), and when it is
\* done every code cell has the outputs the first pass gave it.
C4_SecondPassAllHits ==
    (/\ edit.kind = "same"
     /\ \A e \in Entries(log) \cup Entries(prevLog) : e.failure = "none")
    => /\ \A e \in Entries(log) : e.hit /\ ~Executed(e) /\ e.raised = ""
       /\ pc = "done" =>
             \A k \in 1..Len(cells) :
                 cells[k].cell_type = "code" => cells[k].outputs = prevCells[k].outputs

\* C5: after a completed pass, a pass over the same notebook with the source
\* of one code cell that is not a setup cell changed serves every other code
\* cell from the cache with the outputs it had; the engine is started at most
\* once, for the changed cell when its key has no entry, and then runs the
\* Setup Set sources (when there are any) and then the cell's source in one
\* context; a pass that is done has started it exactly once.
C5_SelectiveRecomputation ==
    (/\ prevPc = "done"
     /\ edit.kind = "source"
     /\ IsOtherCode(cells, setup_cells, edit.index))
    => /\ \A e \in Entries(log) :
            e.index # edit.index =>
                /\ e.hit /\ ~Executed(e) /\ e.raised = ""
                /\ cells[e.index + 1].outputs = prevCells[e.index + 1].outputs
       /\ \A e \in Entries(log) :
            (e.index = edit.index /\ ~e.hit) =>
                /\ Executed(e)
                /\ e.failure = "none" =>
                     /\ e.ran = (IF SetupSet(cells, setup_cells) # <<>>
                                 THEN <<JoinLines(SetupSet(cells, setup_cells))>>
                                 ELSE <<>>)
                                \o <<cells[e.index + 1].source>>
                     /\ e.events = <<"start">>
                                   \o (IF SetupSet(cells, setup_cells) # <<>>
                                       THEN <<"run_setup">> ELSE <<>>)
                                   \o <<"run_cell", "stop">>
       /\ Cardinality({i \in 1..Len(log) : Executed(log[i])}) <= 1
       /\ (pc = "done" /\ \E e \in Entries(log) : e.index = edit.index /\ ~e.hit)
            => Cardinality({i \in 1..Len(log) : Executed(log[i])}) = 1

\* C5 witness: a done second pass in which the changed cell was run after the
\* setup cells and another code cell was served from the cache.
C5_Witness ==
    /\ prevPc = "done" /\ pc = "done" /\ edit.kind = "source"
    /\ IsOtherCode(cells, setup_cells, edit.index)
    /\ \E e \in Entries(log) :
          e.index = edit.index /\ ~e.hit /\ Len(e.ran) = 2
    /\ \E e \in Entries(log) : e.index # edit.index /\ e.hit

\* C6: a cache entry that does not parse is never what ends a pass: the lookup
\* of a cell whose entry is corrupt does not raise out of preprocess_cell.
C6_CorruptEntryIsMiss ==
    /\ \A e \in Entries(log) : ~(e.hit /\ e.raised = "ValueError")
    /\ ~(pc = "aborted" /\ error = "ValueError")

\* C7: when the engine raises for a cell, the pass is aborted at that cell: it
\* is the last cell looked up, it was looked up once, its key has no entry, the
\* entries stored earlier in the pass are still there, the cells after it have
\* no outputs and no notebook is written.
C7_EngineFailureAborts ==
    \A i \in 1..Len(log) :
        log[i].failure # "none" =>
            /\ i = Len(log)
            /\ pc = "aborted" /\ error = "EngineFailure"
            /\ idx = log[i].index
            /\ \A j \in 1..(i - 1) : log[j].index < log[i].index
            /\ ~Contains(files, log[i].key)
            /\ \A j \in 1..(i - 1) :
                  log[j].stored =>
                      /\ Contains(files, log[j].key)
                      /\ files[Path(log[j].key)] = JsonDump(log[j].outputs)
            /\ \A k \in (idx + 1)..Len(cells) : cells[k].outputs = <<>>
            /\ ~written

\* C7 witness: the engine raised for a cell after an earlier cell's outputs
\* were stored in the same pass.
C7_Witness ==
    /\ pc = "aborted" /\ error = "EngineFailure"
    /\ Len(log) >= 2
    /\ log[Len(log)].failure # "none"
    /\ \E j \in 1..(Len(log) - 1) : log[j].stored

\* C8: outputs that contain an error record are assigned to the cell and
\* stored under its key like any others, and a later lookup of that key (in
\* this pass or the next) is a cache hit that serves the same records without
\* starting the engine.
C8_ErrorOutputsCached ==
    /\ \A i \in 1..Len(log) :
          (~log[i].hit /\ log[i].failure = "none" /\ Executed(log[i])
              /\ HasError(log[i].outputs))
          => /\ cells[log[i].index + 1].outputs = log[i].outputs
             /\ Contains(files, log[i].key)
             /\ files[Path(log[i].key)] = JsonDump(log[i].outputs)
             /\ \A j \in (i + 1)..Len(log) :
                   log[j].key = log[i].key =>
                       /\ log[j].hit /\ ~Executed(log[j]) /\ log[j].raised = ""
                       /\ log[j].outputs = log[i].outputs
    /\ \A f \in Entries(prevLog) :
          (~f.hit /\ f.failure = "none" /\ Executed(f) /\ HasError(f.outputs))
          => /\ Contains(files, f.key)
             /\ files[Path(f.key)] = JsonDump(f.outputs)
             /\ \A e \in Entries(log) :
                   e.key = f.key =>
                       /\ e.hit /\ ~Executed(e) /\ e.raised = ""
                       /\ e.outputs = f.outputs
                       /\ cells[e.index + 1].outputs = f.outputs

\* C8 witness: a cell of this pass is served, as a cache hit, the error record
\* the previous pass stored.
C8_Witness ==
    \E e \in Entries(log), f \in Entries(prevLog) :
        /\ e.key = f.key /\ e.hit /\ e.raised = ""
        /\ ~f.hit /\ f.stored /\ HasError(f.outputs)
        /\ HasError(cells[e.index + 1].outputs)

\* C9: get(key) of an absent key raises KeyError and leaves the files as they
\* were; get(key) of an entry that does not parse raises ValueError and removes
\* that file, so that right after it key is not in the cache, a further get(key)
\* raises KeyError, and every other file is as it was.
C9_GetErrorsAndSelfHeal ==
    lastOp.op = "get" =>
        LET key == lastOp.key
            before == lastOp.before
        IN  /\ ~Contains(before, key) =>
                  /\ lastOp.raised = "KeyError"
                  /\ files = before
            /\ (Contains(before, key) /\ ~JsonValid(before[Path(key)])) =>
                  /\ lastOp.raised = "ValueError"
                  /\ ~Contains(files, key)
                  /\ GetItem(files, key).raised = "KeyError"
                  /\ DOMAIN files = (DOMAIN before) \ {Path(key)}
                  /\ \A p \in DOMAIN files : files[p] = before[p]

\* C9 witness: get was called on a corrupt entry while another key's entry was
\* there.
C9_Witness ==
    /\ lastOp.op = "get"
    /\ Contains(lastOp.before, lastOp.key)
    /\ ~JsonValid(lastOp.before[Path(lastOp.key)])
    /\ lastOp.raised = "ValueError"
    /\ DOMAIN files # {}

\* Two writers put keys of one shard directory
SameShard == \A v, w \in Writers : Path(procs[v].key).dir = Path(procs[w].key).dir
AllWritten == \A w \in Writers : procs[w].pc = "done"

\* C10 as stated: when two passes put keys of one shard directory, neither put
\* fails and afterwards each written key holds a value written by one of the
\* puts.
C10_EachKeyHoldsAPutValue ==
    (DOMAIN procs = Writers /\ SameShard)
    => /\ \A w \in Writers : procs[w].pc # "failed"
       /\ AllWritten =>
             \A w \in Writers :
                 /\ Contains(files, procs[w].key)
                 /\ \E v \in Writers :
                       /\ procs[v].key = procs[w].key
                       /\ files[Path(procs[w].key)] = JsonDump(procs[v].value)

\* C10 as amended: when two passes put keys of one shard directory, neither put
\* fails under any interleaving, and afterwards a key holds the value put under
\* it when every put of that key wrote the same value.
C10_RaceTolerated ==
    (DOMAIN procs = Writers /\ SameShard)
    => /\ \A w \in Writers : procs[w].pc # "failed"
       /\ AllWritten =>
             \A w \in Writers :
                 (\A v \in Writers :
                     procs[v].key = procs[w].key => procs[v].value = procs[w].value)
                 => /\ Contains(files, procs[w].key)
                    /\ files[Path(procs[w].key)] = JsonDump(procs[w].value)

\* C10 witness: two puts of different keys of one shard directory are done;
\* one made the directory and the other found it made (EEXIST).
C10_Witness ==
    /\ DOMAIN procs = Writers /\ SameShard /\ AllWritten
    /\ procs["w1"].key # procs["w2"].key
    /\ \E v, w \in Writers : procs[v].made = "created" /\ procs[w].made = "eexist"
    /\ \A w \in Writers : files[Path(procs[w].key)] = JsonDump(procs[w].value)

\* C11: starting from an empty cache directory, over passes that were done,
\* whenever a cell is served from the cache the outputs served are the ones
\* the engine gives for that cell on a miss in this notebook (its setup cell
\* run first, then its source).
C11_NoStaleHits ==
    (/\ prevPc \in {"", "done"}
     /\ \A p \in DOMAIN files : JsonValid(files[p]))
    => \A e \in Entries(log) :
          (e.hit /\ e.raised = "")
          => e.outputs = RunCell(cells[e.index + 1].source, e.index, setup,
                                 end_setup_index, "none").outputs

\* The sources of the setup cells that come before cell k, in document order
SetupBefore(cellSeq, n, k) ==
    SubSeq(SetupSet(cellSeq, n), 1, Cardinality(CodeBefore(cellSeq, k)))

\* C12: on a cache miss of a setup cell, what is run before the cell in its
\* context is exactly the sources of the setup cells that come before it, in
\* document order: not its own source, not a later setup cell's.
C12_SetupCellReplaysPredecessors ==
    \A e \in Entries(log) :
        (/\ ~e.hit /\ Executed(e) /\ e.failure = "none"
         /\ IsSetupCell(cells, setup_cells, e.index))
        => e.ran = (IF SetupBefore(cells, setup_cells, e.index) # <<>>
                    THEN <<JoinLines(SetupBefore(cells, setup_cells, e.index))>>
                    ELSE <<>>)
                   \o <<cells[e.index + 1].source>>

\* What the claims say a cell that is not a setup cell runs before itself: the
\* Setup Set joined, nothing when that text is empty
FullSetupRun(cellSeq, n) ==
    IF JoinLines(SetupSet(cellSeq, n)) # ""
    THEN <<JoinLines(SetupSet(cellSeq, n))>> ELSE <<>>

\* C13: on a cache miss of a code cell that is not a setup cell, the engine
\* runs in one fresh context the whole Setup Set (joined in order, skipped
\* when that text is empty) and then the cell's source, and nothing else; when
\* the setup run raises, the cell's source is not run.
C13_OtherCellReplaysFullSetup ==
    \A e \in Entries(log) :
        (~e.hit /\ Executed(e) /\ IsOtherCode(cells, setup_cells, e.index))
        => /\ e.events[1] = "start"
           /\ Cardinality({i \in 1..Len(e.events) : e.events[i] = "start"}) = 1
           /\ e.failure \in {"none", "cell"} =>
                 e.ran = FullSetupRun(cells, setup_cells)
                         \o <<cells[e.index + 1].source>>
           /\ e.failure = "setup" =>
                 e.ran = FullSetupRun(cells, setup_cells)

\* C13 witness: in the first pass a code cell that is not a setup cell missed
\* and was run after the joined sources of two setup cells.
C13_Witness ==
    /\ pass = 1
    /\ \E e \in Entries(log) :
          /\ ~e.hit /\ e.failure = "none"
          /\ IsOtherCode(cells, setup_cells, e.index)
          /\ Len(SetupSet(cells, setup_cells)) = 2
          /\ e.ran = <<JoinLines(SetupSet(cells, setup_cells)),
                       cells[e.index + 1].source>>

\* The outputs a cell is given when the entry under key is served
Served(fileMap, key) ==
    [j \in 1..Len(JsonLoad(fileMap[Path(key)])) |->
        NotebookNode(JsonLoad(fileMap[Path(key)])[j])]

\* C14: at every point of a pass, each code cell processed so far has outputs
\* equal to the cache entry under its key; on a miss these are the output
\* records of the run of the cell's own source (after what the context ran
\* before), not those of the setup run; when the pass is done every code cell
\* has an entry under its key.
C14_OutputsAgreeWithStore ==
    /\ \A e \in Entries(log) :
          e.raised = "" =>
              /\ Contains(files, e.key)
              /\ JsonValid(files[Path(e.key)])
              /\ cells[e.index + 1].outputs = Served(files, e.key)
              /\ ~e.hit =>
                    /\ cells[e.index + 1].outputs
                         = EngineRun(SubSeq(e.ran, 1, Len(e.ran) - 1),
                                     cells[e.index + 1].source)
                    /\ files[Path(e.key)] = JsonDump(cells[e.index + 1].outputs)
    /\ pc = "done" =>
          \A k \in 0..(Len(cells) - 1) :
              cells[k + 1].cell_type = "code" =>
                  \E e \in Entries(log) : e.index = k /\ Contains(files, e.key)

\* C14 witness: a done pass in which one cell was run after a setup run and
\* another was served from the cache.
C14_Witness ==
    /\ pc = "done"
    /\ \E e \in Entries(log) : ~e.hit /\ Len(e.ran) = 2
    /\ \E e \in Entries(log) : e.hit

\* The number of kernels left running by the first n events of a run
Live(events, n) ==
    Cardinality({i \in 1..n : events[i] = "start"})
    - Cardinality({i \in 1..n : events[i] = "stop"})

\* C15: every kernel started for a cell is stopped before preprocess_cell is
\* left, whether the runs succeed or raise: within a cell's run at most one
\* kernel is live, nothing is run without one, and none is live at the end, so
\* none is live when the next cell is processed or the pass ends or aborts.
C15_ScopedContexts ==
    \A e \in Entries(log) \cup Entries(prevLog) :
        Executed(e) =>
            /\ e.events[1] = "start"
            /\ e.events[Len(e.events)] = "stop"
            /\ \A n \in 1..(Len(e.events) - 1) : Live(e.events, n) = 1
            /\ Live(e.events, Len(e.events)) = 0

\* C15 witness: a pass aborted by an engine failure after an earlier cell of
\* it was run; both kernels were stopped.
C15_Witness ==
    /\ pc = "aborted" /\ error = "EngineFailure"
    /\ Len(log) >= 2
    /\ \E i \in 1..(Len(log) - 1) : Executed(log[i])
    /\ log[Len(log)].events[Len(log[Len(log)].events)] = "stop"

\* C16: over the passes one process runs one after another, a put happens only
\* for a key that had no file when the cell looked it up, and a file that
\* holds a valid entry is never rewritten and never removed.
C16_WriteOnce ==
    [][/\ \A p \in DOMAIN files :
             JsonValid(files[p]) => (p \in DOMAIN files' /\ files'[p] = files[p])
       /\ (Len(log') = Len(log) + 1 /\ log'[Len(log')].stored)
             => ~Contains(files, log'[Len(log')].key)]_vars

\* C16 witness: in a second pass a setup cell hits the entry that the first
\* pass stored under its key, although run now (after other setup code) it
\* would give other outputs than the entry holds.
C16_Witness ==
    /\ pass = 2
    /\ \E e \in Entries(log) :
          /\ e.hit /\ e.raised = ""
          /\ \E d \in Entries(prevLog) : d.key = e.key /\ d.stored
          /\ e.outputs # RunCell(cells[e.index + 1].source, e.index, setup,
                                 end_setup_index, "none").outputs

\* C17: in every pass whose setup extraction succeeded, every code cell at an
\* index below end_setup_index has its source in self.setup, so
\* self.setup.index(cell.source) of run_cell finds it: no run of a cell raises
\* ValueError (a ValueError of a pass comes from a cache hit on a corrupt
\* entry only).
C17_SetupLookupNeverFails ==
    /\ (pc \in {"cells", "done"} \/ (pc = "aborted" /\ error # "UnboundLocalError"))
          => \A k \in 0..(Len(cells) - 1) :
                (k < end_setup_index /\ cells[k + 1].cell_type = "code")
                    => IndexOf(setup, cells[k + 1].source) # 0
    /\ \A e \in Entries(log) \cup Entries(prevLog) :
          e.raised = "ValueError" => e.hit

\* C17 witness: a setup cell below end_setup_index was run after a non-empty
\* prefix that the lookup of its source gave.
C17_Witness ==
    \E e \in Entries(log) :
        /\ ~e.hit /\ e.raised = "" /\ e.index < end_setup_index
        /\ Len(e.ran) = 2
        /\ IndexOf(setup, cells[e.index + 1].source) = 2

\* The indexes of the code cells of cellSeq, in notebook order
RECURSIVE CodeIndexes(_, _)
CodeIndexes(cellSeq, k) ==
    IF k >= Len(cellSeq) THEN <<>>
    ELSE (IF cellSeq[k + 1].cell_type = "code" THEN <<k>> ELSE <<>>)
         \o CodeIndexes(cellSeq, k + 1)

\* C18: a pass always completes.  For every notebook (also one without cells,
\* without code cells, or with fewer code cells than setup_cells) and every
\* setup_cells >= 0, a pass ends early only because the engine raised or a
\* cache hit met a corrupt entry; otherwise the setup extraction defines
\* end_setup_index and the pass reaches the write of the notebook after
\* preprocess_cell was called on every cell once, in order.
C18_PassCompletes ==
    /\ pc = "aborted" =>
          /\ Len(log) > 0
          /\ \/ error = "EngineFailure"
             \/ error = "ValueError" /\ log[Len(log)].hit
    /\ pc = "done" =>
          /\ idx = Len(cells)
          /\ [i \in 1..Len(log) |-> log[i].index] = CodeIndexes(cells, 0)

\* C19: when a lookup of a key (the membership test, then the read) runs
\* while another process is inside __setitem__ of the same key (open with
\* truncation, writes, close), the lookup misses or returns the complete value
\* put: it never fails on a corrupt entry (which would end the reader's pass),
\* and the file the writer is producing is never removed.
C19_ReadersSeeCompleteEntries ==
    \A r \in Readers :
        procs[r].key = procs["w1"].key =>
            /\ procs[r].pc # "remove"
            /\ procs[r].raised = ""
            /\ procs[r].pc = "hit"
                  => procs[r].value = JsonLoad(JsonDump(procs["w1"].value))
            /\ procs["w1"].pc \in {"write", "done"}
                  => Contains(files, procs["w1"].key)

\* C20: every step of a pass leaves the number, order, types and sources of
\* the cells as they are and changes no field of a non-code cell; the step
\* that passes a non-code cell changes neither the cache directory nor the
\* record of lookups and kernel runs, which holds code cells only.
C20_FrameOfPass ==
    [][pass' = pass =>
          /\ Len(cells') = Len(cells)
          /\ \A i \in 1..Len(cells) :
                /\ cells'[i].cell_type = cells[i].cell_type
                /\ cells'[i].source = cells[i].source
                /\ cells[i].cell_type # "code" => cells'[i] = cells[i]
          /\ (pc = "cells" /\ idx < Len(cells) /\ cells[idx + 1].cell_type # "code")
                => (files' = files /\ dirs' = dirs /\ log' = log)
          /\ \A e \in Entries(log') : cells'[e.index + 1].cell_type = "code"]_vars

\* C20 witness: a finished pass over a notebook with a markdown cell between
\* two code cells; both code cells got outputs, the markdown cell none.
C20_Witness ==
    /\ pc = "done" /\ Len(cells) = 3
    /\ cells[2] = MarkdownCell
    /\ cells[1].cell_type = "code" /\ cells[1].outputs # <<>>
    /\ cells[3].cell_type = "code" /\ cells[3].outputs # <<>>
    /\ Len(log) = 2

====
